---- MODULE Spec2Model ----
(***************************************************************************)
(* A model of the trip planner core of Capstone2:                          *)
(*   Planner/route_optimizer.py   RouteOptimizer (nearest neighbour,       *)
(*                                2-opt, end anchor, travel annotation)    *)
(*   Planner/time_constraint.py   TimeConstraintService.apply_constraints  *)
(*   Planner/planner_service.py   PlannerService.generate and helpers      *)
(*                                                                         *)
(* Conventions.  Python lists are sequences; a Python index k is the       *)
(* position k+1 here.  None is the string "None".  A datetime of the day   *)
(* being scheduled is the number of minutes since that day's midnight and  *)
(* may exceed 1440 (the next calendar day); a time of day is the same      *)
(* number modulo 1440, as datetime.time() gives it.  Coordinates are       *)
(* integer offsets on a grid of 100 m, and a distance is a whole number of *)
(* units of 100 m.                                                         *)
(***************************************************************************)
EXTENDS Integers, Sequences, FiniteSets, TLC

VARIABLES
    pc,               \* position of the request or function being run
    matrix,           \* _two_opt: the distance matrix it is given
    route,            \* _two_opt / optimize: the tour (positions into places)
    route_once,       \* _two_opt applied to route
    route_twice,      \* _two_opt applied to route_once
    places,           \* the day's list of place dicts a function is given
    start_location,   \* optimize: the start anchor or None
    end_location,     \* optimize: the end anchor or None
    optimized,        \* optimize: the day's list it returns
    pace,             \* apply_constraints: preference.travel_pace
    day_start,        \* apply_constraints: day_start, minutes of the day
    day_end,          \* apply_constraints: day_end, minutes of the day
    seq_places,       \* apply_constraints: the re-sequenced list being walked
    idx,              \* apply_constraints: position of the walk in seq_places
    current_time,     \* apply_constraints: the day's running clock
    day_itineraries,  \* apply_constraints: the stops kept so far
    warnings,         \* apply_constraints: the warnings emitted so far
    last_step,        \* apply_constraints: what the last loop pass did
    weekday,          \* apply_constraints: current_date.weekday(), 0 = Monday
    draft,            \* generate: the parsed draft, a list of day objects
    places_by_day,    \* generate: what _build_places_by_day returns
    optimized_by_day, \* generate: what optimize returns
    constrained,      \* generate: the days apply_constraints returns
    gen_warnings,     \* generate: the warnings apply_constraints returns
    route_responses,  \* optimize: what the routing service answered, per hop
    recommended,      \* _gather_candidates: what recommender.recommend returns
    must_visit_places, \* request.must_visit_places
    candidates,       \* what _gather_candidates returns
    attempt,          \* _generate_with_gpt: calls of the draft generator made
    gpt_log,          \* _generate_with_gpt: how each call ended
    error,            \* the exception that ended the request, or None
    itineraries,      \* the itinerary rows of the stored trip
    region,           \* request.region
    parsed,           \* _generate_with_gpt: what _parse_gpt_response returned
    trip_created,     \* whether _save_trip has stored a trip
    exclude_places    \* request.exclude_places

twoVars   == <<matrix, route_once, route_twice>>
optVars   == <<start_location, end_location, optimized>>
schedVars == <<pace, day_start, day_end, seq_places, idx, current_time,
               day_itineraries, warnings, last_step, weekday>>
genVars   == <<draft, places_by_day, optimized_by_day, constrained,
               gen_warnings>>
reqVars   == <<recommended, must_visit_places, candidates, attempt, gpt_log,
               error, itineraries, region, parsed, trip_created,
               exclude_places>>
vars      == <<pc, route, places, twoVars, optVars, schedVars, genVars,
               route_responses, reqVars>>

\* Python's None: as a string, as a number, as a coordinate pair, as a text
None == "None"
NoInt == -1
NoPoint == <<>>
NoText == <<>>

----------------------------------------------------------------------------
(* Bounds of the model *)

\* most places in one day given to the optimizer or the scheduler
MaxStops == 3

\* largest entry of a distance matrix given to _two_opt directly
MaxDist == 3

\* largest coordinate of a place on the line of five places
MaxLinePos == 4

\* the numbers of places of the tours given to _two_opt directly
TourSizes == {3, 4}

----------------------------------------------------------------------------
(* Generic helpers *)

Max(a, b) == IF a >= b THEN a ELSE b
Min(a, b) == IF a <= b THEN a ELSE b

Reverse(s) == [k \in 1..Len(s) |-> s[Len(s) + 1 - k]]

\* the positions a..b of s, cut to the positions s has (a Python slice)
Slice(s, a, b) ==
    LET lo == Max(a, 1)
        hi == Min(b, Len(s))
    IN  IF lo > hi THEN <<>> ELSE SubSeq(s, lo, hi)

RECURSIVE SumSeq(_)
SumSeq(s) == IF s = <<>> THEN 0 ELSE Head(s) + SumSeq(Tail(s))

Range(s) == {s[k] : k \in 1..Len(s)}

\* all orderings of the positions 1..n
Perms(n) == {p \in [1..n -> 1..n] : \A a, b \in 1..n : a # b => p[a] # p[b]}

\* floor of the square root
Isqrt(x) == CHOOSE r \in 0..x : r * r <= x /\ (r + 1) * (r + 1) > x

----------------------------------------------------------------------------
(* RouteOptimizer: distances and tours *)

\* _haversine: the great-circle distance; on the model's 100 m grid, at the
\* scale of one city, it is the straight-line distance, in units of 100 m.
_haversine(lat1, lon1, lat2, lon2) ==
    Isqrt((lat1 - lat2) * (lat1 - lat2) + (lon1 - lon2) * (lon1 - lon2))

_build_distance_matrix(ps) ==
    [a \in 1..Len(ps) |-> [b \in 1..Len(ps) |->
        IF a = b THEN 0
        ELSE _haversine(ps[a].latitude, ps[a].longitude,
                        ps[b].latitude, ps[b].longitude)]]

_route_distance(r, m) ==
    SumSeq([k \in 1..(Len(r) - 1) |-> m[r[k]][r[k + 1]]])

\* a 2-opt that keeps a reversal when it lengthens the tour
TwoOptAcceptsLonger(new_distance, best_distance) == new_distance > best_distance

\* line 291: a reversal is kept only when it strictly shortens the tour
TwoOptAccepts(new_distance, best_distance) == new_distance < best_distance

\* lines 284-288: best_route with positions i..j reversed
TwoOptReversal(best_route, i, j) ==
    Slice(best_route, 1, i - 1) \o Reverse(Slice(best_route, i, j))
        \o Slice(best_route, j + 1, Len(best_route))

\* lines 281-294: one pass of the two for loops, from (i, j) on; best_route
\* is replaced inside the pass as soon as a reversal is accepted
RECURSIVE TwoOptPass(_, _, _, _)
TwoOptPass(best_route, m, i, j) ==
    IF i > Len(best_route) - 1 THEN [route |-> best_route, improved |-> FALSE]
    ELSE IF j > Len(best_route) THEN TwoOptPass(best_route, m, i + 1, i + 2)
    ELSE LET new_route == TwoOptReversal(best_route, i, j)
         IN  IF TwoOptAccepts(_route_distance(new_route, m),
                              _route_distance(best_route, m))
             THEN [route |-> TwoOptPass(new_route, m, i, j + 1).route,
                   improved |-> TRUE]
             ELSE TwoOptPass(best_route, m, i, j + 1)

\* lines 279-296: passes are repeated until one accepts nothing
RECURSIVE TwoOptLoop(_, _)
TwoOptLoop(best_route, m) ==
    LET p == TwoOptPass(best_route, m, 2, 3)
    IN  IF p.improved THEN TwoOptLoop(p.route, m) ELSE p.route

\* a 2-opt that stops after its first pass
TwoOptOnePass(r, m) == TwoOptPass(r, m, 2, 3).route

_two_opt(r, m) == TwoOptLoop(r, m)

\* lines 238-248: the place nearest to the start point, the first on a tie
NearestToStart(start, ps) ==
    LET d(k) == _haversine(start[1], start[2], ps[k].latitude, ps[k].longitude)
        best == CHOOSE k \in 1..Len(ps) : \A o \in 1..Len(ps) : d(k) <= d(o)
    IN  CHOOSE k \in 1..Len(ps) :
            /\ d(k) = d(best)
            /\ \A o \in 1..Len(ps) : d(o) = d(best) => k <= o

\* lines 255-261: the unvisited place nearest to current, the first on a tie
NearestUnvisited(m, current, unvisited) ==
    CHOOSE j \in unvisited :
        /\ \A o \in unvisited : m[current][j] <= m[current][o]
        /\ \A o \in unvisited : m[current][o] = m[current][j] => j <= o

\* a tour that goes on to the nearest other place, visited or not
RECURSIVE NearestNeighborRevisit(_, _)
NearestNeighborRevisit(r, m) ==
    IF Len(r) >= Len(m) THEN r
    ELSE NearestNeighborRevisit(
             Append(r, NearestUnvisited(m, r[Len(r)],
                                        (1..Len(m)) \ {r[Len(r)]})), m)

\* lines 253-265: the tour is extended until every place is visited
RECURSIVE NearestNeighborExtend(_, _)
NearestNeighborExtend(r, m) ==
    LET n == Len(m)
        unvisited == (1..n) \ Range(r)
    IN  IF unvisited = {} THEN r
        ELSE NearestNeighborExtend(
                 Append(r, NearestUnvisited(m, r[Len(r)], unvisited)), m)

_nearest_neighbor(m, start, ps) ==
    NearestNeighborExtend(<<NearestToStart(start, ps)>>, m)

_route_distance_with_endpoints(r, ps, start, end) ==
    LET hop(a, b) == _haversine(ps[a].latitude, ps[a].longitude,
                                ps[b].latitude, ps[b].longitude)
    IN  (IF start # NoPoint /\ r # <<>>
         THEN _haversine(start[1], start[2],
                         ps[r[1]].latitude, ps[r[1]].longitude)
         ELSE 0)
        + SumSeq([k \in 1..(Len(r) - 1) |-> hop(r[k], r[k + 1])])
        + (IF end # NoPoint /\ r # <<>>
           THEN _haversine(ps[r[Len(r)]].latitude, ps[r[Len(r)]].longitude,
                           end[1], end[2])
           ELSE 0)

\* lines 107-121: the loop over the positions before the last, from i on;
\* acc is [best_route, best_dist]
RECURSIVE EndLocationLoop(_, _, _, _, _)
EndLocationLoop(r, ps, end, i, acc) ==
    IF i > Len(r) - 1 THEN acc.best_route
    ELSE LET dist == _haversine(ps[r[i]].latitude, ps[r[i]].longitude,
                                end[1], end[2])
             new_route == Slice(r, 1, i - 1) \o Slice(r, i + 1, Len(r))
                              \o <<r[i]>>
             new_total == _route_distance_with_endpoints(new_route, ps, NoPoint, end)
             old_total == _route_distance_with_endpoints(r, ps, NoPoint, end)
         IN  IF dist < acc.best_dist /\ new_total < old_total
             THEN EndLocationLoop(r, ps, end, i + 1,
                      [best_route |-> new_route, best_dist |-> dist])
             ELSE EndLocationLoop(r, ps, end, i + 1, acc)

\* an optimizer that leaves the 2-opt tour as it is
KeepTwoOptTour(r, ps, end) == r

\* lines 86-123
_optimize_for_end_location(r, ps, end) ==
    IF Len(r) < 2 THEN r
    ELSE LET last == r[Len(r)]
             last_dist == _haversine(ps[last].latitude, ps[last].longitude,
                                     end[1], end[2])
         IN  EndLocationLoop(r, ps, end, Max(1, Len(r) - 2),
                 [best_route |-> r, best_dist |-> last_dist])

----------------------------------------------------------------------------
(* The place dicts the optimizer and the scheduler pass along *)

\* a candidate as _build_places_by_day hands it on: no travel annotation, no
\* arrival time yet
Place(id, cat, lat, lng, must, night, kw, closed, hours, stay) ==
    [place_id |-> id, category |-> cat, latitude |-> lat, longitude |-> lng,
     must_visit |-> must, is_night_place |-> night, night_keyword |-> kw,
     closed_days |-> closed, operating_hours |-> hours,
     suggested_stay_duration |-> stay, order_index |-> 0,
     travel_time_from_prev |-> NoInt, transport_mode |-> None,
     suggested_arrival_time |-> NoInt]

\* operating_hours: the text "<open><sep><close>" with the two times in
\* minutes of the day; NoHours is None
Hours(open, sep, close) == [open |-> open, sep |-> sep, close |-> close]
NoHours == Hours(0, None, 0)

\* an itinerary row as optimize_route loads it: identity and coordinates only
PlainPlace(id, pt) ==
    Place(id, None, pt[1], pt[2], FALSE, FALSE, FALSE, NoText, NoHours, NoInt)

\* the points places and anchors lie on: 300 m, 400 m and 500 m apart around
\* the origin, and one point 6 km away
GridPoints == {<<0, 0>>, <<3, 0>>, <<3, 4>>, <<60, 0>>}
AnchorPoints == {<<3, 4>>, <<60, 0>>}

\* what the routing service does when get_route_info calls it: the call
\* raises (timeout, connection error), or answers with a status and a list
\* of routes, each with a summary (seconds, metres)
RouteResponse(raised, status_code, routes) ==
    [raised |-> raised, status_code |-> status_code, routes |-> routes]

RouteResponses ==
    {RouteResponse(TRUE, 0, <<>>),
     RouteResponse(FALSE, 500, <<>>),
     RouteResponse(FALSE, 200, <<>>),
     RouteResponse(FALSE, 200, <<[distance |-> 300]>>),
     RouteResponse(FALSE, 200, <<[duration |-> 0, distance |-> 0]>>),
     RouteResponse(FALSE, 200, <<[duration |-> 45, distance |-> 300]>>),
     RouteResponse(FALSE, 200, <<[duration |-> 600, distance |-> 2500]>>),
     RouteResponse(FALSE, 200, <<[duration |-> 1500, distance |-> 12000]>>)}

\* get_route_info: {0, 0} on an exception (a missing summary key included),
\* a non-200 status or an empty route list, else the first route's summary
get_route_info(resp) ==
    LET failed == [duration |-> 0, distance |-> 0]
    IN  IF resp.raised THEN failed
        ELSE IF resp.status_code = 200 /\ resp.routes # <<>>
        THEN LET summary == resp.routes[1]
             IN  IF {"duration", "distance"} \subseteq DOMAIN summary
                 THEN [duration |-> summary.duration,
                       distance |-> summary.distance]
                 ELSE failed
        ELSE failed

\* what get_route_info can return
RouteOutcomes == {get_route_info(resp) : resp \in RouteResponses}

\* lines 330-357: minutes and mode of one hop, before the 5 minute floor
TravelOfHop(prev, place, route_info) ==
    IF route_info.duration > 0
    THEN [travel_time |-> Max(route_info.duration \div 60, 1),
          transport_mode |->
              IF route_info.distance < 500 THEN "walk"
              ELSE IF route_info.distance < 5000 THEN "public_transit"
              ELSE "car"]
    ELSE LET dist == _haversine(prev.latitude, prev.longitude,
                                place.latitude, place.longitude)
         IN  IF dist < 5
             THEN [travel_time |-> Max((dist * 100) \div 80, 5),
                   transport_mode |-> "walk"]
             ELSE IF dist < 50
             THEN [travel_time |-> (dist * 3) \div 10 + 5,
                   transport_mode |-> "public_transit"]
             ELSE [travel_time |-> (dist * 2) \div 10 + 10,
                   transport_mode |-> "car"]

\* an annotation that records the minutes as computed
FloorNever(travel_time) == travel_time

\* line 359: the 5 minute floor
FloorTravelTime(travel_time) == Max(travel_time, 5)

\* _add_travel_times; info[k] is what get_route_info returns for the hop
\* into position k
_add_travel_times(ps, info) ==
    [k \in 1..Len(ps) |->
        IF k = 1
        THEN [ps[k] EXCEPT !.travel_time_from_prev = NoInt,
                           !.transport_mode = None]
        ELSE LET t == TravelOfHop(ps[k - 1], ps[k], info[k])
             IN  [ps[k] EXCEPT !.travel_time_from_prev =
                                   FloorTravelTime(t.travel_time),
                               !.transport_mode = t.transport_mode]]

\* an optimizer that leaves the stored order_index alone
KeepOrderIndex(ps) == ps

\* lines 41-42 and 79-80: order_index is the position in the list
AssignOrderIndex(ps) ==
    [k \in 1..Len(ps) |-> [ps[k] EXCEPT !.order_index = k]]

\* an optimizer that skips reordering only for days of at most 1 place
SkipsReorderingOne(ps) == Len(ps) <= 1

\* line 38: days of at most 2 places are not reordered
SkipsReordering(ps) == Len(ps) <= 2

\* an optimizer that starts the tour from the day's last listed place
DefaultStartLast(ps) == <<ps[Len(ps)].latitude, ps[Len(ps)].longitude>>

\* line 52: without a start anchor the tour starts from the first listed place
DefaultStart(ps) == <<ps[1].latitude, ps[1].longitude>>

\* lines 38-73: the order optimize gives the day's places, as positions into
\* the input list
OptimizeRoute(ps, start, end) ==
    IF SkipsReordering(ps) THEN [k \in 1..Len(ps) |-> k]
    ELSE LET start_pt == IF start # NoPoint THEN start ELSE DefaultStart(ps)
             distance_matrix == _build_distance_matrix(ps)
             nn == _nearest_neighbor(distance_matrix, start_pt, ps)
             opt == _two_opt(nn, distance_matrix)
         IN  IF end # NoPoint THEN _optimize_for_end_location(opt, ps, end)
             ELSE opt

\* line 73
Reordered(ps, r) == [k \in 1..Len(r) |-> ps[r[k]]]

----------------------------------------------------------------------------
(* RouteOptimizer.optimize on one day *)

DayOfPlainPlaces(n) ==
    {[k \in 1..n |-> PlainPlace(k, pts[k])] : pts \in [1..n -> GridPoints]}

IdleSched ==
    /\ pace = None /\ day_start = 0 /\ day_end = 0
    /\ seq_places = <<>> /\ idx = 0 /\ current_time = 0
    /\ day_itineraries = <<>> /\ warnings = <<>> /\ last_step = None
    /\ weekday = 0

IdleTwoOpt == matrix = <<>> /\ route_once = <<>> /\ route_twice = <<>>

IdleReq ==
    /\ recommended = <<>> /\ must_visit_places = <<>> /\ candidates = <<>>
    /\ attempt = 0 /\ gpt_log = <<>> /\ error = None /\ itineraries = <<>>
    /\ region = None /\ parsed = <<>> /\ trip_created = FALSE
    /\ exclude_places = {}

IdleGen ==
    /\ draft = <<>> /\ places_by_day = <<>> /\ optimized_by_day = <<>>
    /\ constrained = <<>> /\ gen_warnings = <<>>

InitOpt ==
    /\ pc = "optimize"
    /\ IdleReq /\ route_responses = <<>>
    /\ \E n \in 0..MaxStops : places \in DayOfPlainPlaces(n)
    /\ start_location \in {NoPoint} \cup AnchorPoints
    /\ end_location \in {NoPoint} \cup AnchorPoints
    /\ route = <<>>
    /\ optimized = <<>>
    /\ IdleTwoOpt
    /\ IdleSched
    /\ IdleGen

\* optimize, lines 37-73: the day's order is decided
OptimizeOrder ==
    /\ pc = "optimize"
    /\ route' = OptimizeRoute(places, start_location, end_location)
    /\ pc' = "travel_times"
    /\ UNCHANGED <<reqVars, route_responses, places, twoVars, optVars, schedVars, genVars>>

\* optimize, lines 40-43 and 75-82: every hop is annotated from what the
\* routing collaborator returns for it, and order_index is rewritten
OptimizeAnnotate ==
    /\ pc = "travel_times"
    /\ \E resp \in [2..Len(route) -> RouteResponses] :
          /\ route_responses' = resp
          /\ optimized' = AssignOrderIndex(
                 _add_travel_times(Reordered(places, route),
                     [k \in 2..Len(route) |-> get_route_info(resp[k])]))
    /\ pc' = "optimized"
    /\ UNCHANGED <<reqVars, route, places, start_location, end_location,
                   twoVars, schedVars, genVars>>

NextOpt == OptimizeOrder \/ OptimizeAnnotate

SpecOpt == InitOpt /\ [][NextOpt]_vars

\* the place ids of a list, in order
IdsOf(ps) == [k \in 1..Len(ps) |-> ps[k].place_id]

\* C9: a day of 2 or fewer stops leaves the optimizer in its input order,
\* with or without anchors, and only the travel annotations and order_index
\* of a stop are written.
C9_SmallDayKeepsOrder ==
    (pc = "optimized" /\ Len(places) <= 2) =>
        /\ Len(optimized) = Len(places)
        /\ \A k \in 1..Len(places) :
              [optimized[k] EXCEPT
                  !.travel_time_from_prev = places[k].travel_time_from_prev,
                  !.transport_mode = places[k].transport_mode,
                  !.order_index = places[k].order_index] = places[k]

\* a day of 2 stops, optimized with a start anchor that is nearer to the
\* second stop than to the first
C9_Witness ==
    /\ pc = "optimized"
    /\ Len(places) = 2
    /\ start_location # NoPoint
    /\ _haversine(start_location[1], start_location[2],
                  places[2].latitude, places[2].longitude)
         < _haversine(start_location[1], start_location[2],
                      places[1].latitude, places[1].longitude)
    /\ IdsOf(optimized) = IdsOf(places)

TransportModes == {"walk", "public_transit", "car"}

\* C14: whatever the routing service does on each hop (raises, answers with
\* a status other than 200, with no route, with a zero or missing duration,
\* or with a route), optimize returns every stop of the day, and every stop
\* but the first has a travel time of at least 5 minutes and a transport
\* mode among walk, public_transit and car.
C14_RoutingFailureStillAnnotates ==
    pc = "optimized" =>
        /\ Len(optimized) = Len(places)
        /\ Range(IdsOf(optimized)) = Range(IdsOf(places))
        /\ \A k \in 2..Len(optimized) :
               /\ optimized[k].travel_time_from_prev >= 5
               /\ optimized[k].transport_mode \in TransportModes

\* a day of 3 stops returned after the call for one hop raised and the call
\* for the other was answered with a route summary without a duration
C14_Witness ==
    /\ pc = "optimized"
    /\ Len(optimized) = 3
    /\ route_responses[2].raised
    /\ ~route_responses[3].raised
    /\ route_responses[3].routes # <<>>
    /\ "duration" \notin DOMAIN route_responses[3].routes[1]

----------------------------------------------------------------------------
(* Five places along a line, no anchors *)

\* five places on one meridian, at the latitudes pos
LineOfPlaces(pos) == [k \in 1..5 |-> PlainPlace(k, <<pos[k], 0>>)]

InitLine ==
    /\ pc = "optimize"
    /\ IdleReq /\ route_responses = <<>>
    /\ \E pos \in [1..5 -> 0..MaxLinePos] : places = LineOfPlaces(pos)
    /\ start_location = NoPoint
    /\ end_location = NoPoint
    /\ route = <<>>
    /\ optimized = <<>>
    /\ IdleTwoOpt
    /\ IdleSched
    /\ IdleGen

SpecLine == InitLine /\ [][OptimizeOrder]_vars

LineOrderings == Perms(5)

\* the length of the shortest of the 120 orderings of the day's places
BruteForceOptimal(ps) ==
    LET m == _build_distance_matrix(ps)
        lengths == {_route_distance(p, m) : p \in LineOrderings}
    IN  CHOOSE d \in lengths : \A e \in lengths : d <= e

TourLength(ps, r) == _route_distance(r, _build_distance_matrix(ps))

Latitudes(ps) == {ps[k].latitude : k \in 1..Len(ps)}

\* the first listed place is at one end of the line
FirstAtAnEnd(ps) ==
    \/ \A l \in Latitudes(ps) : ps[1].latitude <= l
    \/ \A l \in Latitudes(ps) : ps[1].latitude >= l

\* C10 as stated: for 5 places along a line in any input order, the tour of
\* nearest-neighbor followed by 2-opt is as short as the shortest of all 120
\* orderings.
C10_AnyOrderOptimal ==
    pc = "travel_times" => TourLength(places, route) = BruteForceOptimal(places)

\* C10, amended: when the first listed place is at one end of the line, the
\* tour of nearest-neighbor followed by 2-opt is as short as the shortest of
\* all 120 orderings.
C10_EndFirstOptimal ==
    (pc = "travel_times" /\ FirstAtAnEnd(places)) =>
        TourLength(places, route) = BruteForceOptimal(places)

\* five places at five different latitudes, listed out of order with an end
\* of the line first, and the tour made
C10_Witness ==
    /\ pc = "travel_times"
    /\ FirstAtAnEnd(places)
    /\ Cardinality(Latitudes(places)) = 5
    /\ places[2].latitude > places[3].latitude
    /\ places[1].latitude < places[2].latitude
    /\ TourLength(places, route) = BruteForceOptimal(places)

----------------------------------------------------------------------------
(* TimeConstraintService: the tables *)

\* Category names are written in Latin letters: matjip and sikdang are the
\* two restaurant categories, gwangwangji sightseeing, jayeon nature,
\* gongwon park, cheheom experience, bangmulgwan museum, jeonsi exhibit,
\* syoping shopping, kape cafe.
MealCategories == {"matjip", "sikdang"}

NON_NIGHT_CATEGORIES ==
    {"cheheom", "bangmulgwan", "gwangwangji", "matjip", "sikdang", "kape",
     "syoping", "jeonsi"}

DEFAULT_STAY_DURATION(category) ==
    CASE category = "gwangwangji" -> 90
      [] category = "kape" -> 45
      [] category = "matjip" -> 60
      [] category = "sikdang" -> 60
      [] category = "jayeon" -> 120
      [] category = "syoping" -> 60
      [] category = "cheheom" -> 90
      [] category = "bangmulgwan" -> 90
      [] category = "jeonsi" -> 60
      [] category = "gongwon" -> 60
      [] OTHER -> 60

Paces == {"relaxed", "moderate", "packed"}

\* PACE_CONFIG; stay_multiplier in tenths (1.3, 1.0, 0.8)
PACE_CONFIG(p) ==
    CASE p = "relaxed" -> [stay_multiplier |-> 13, buffer_time |-> 30]
      [] p = "packed" -> [stay_multiplier |-> 8, buffer_time |-> 10]
      [] OTHER -> [stay_multiplier |-> 10, buffer_time |-> 15]

\* times of day, in minutes; the day runs from 09:00 to 23:00 when the
\* preference names no times
DefaultDayStart == 540
DefaultDayEnd == 1380
MinutesPerDay == 1440
lunch_start == 720
lunch_end == 840
dinner_start == 1110
night_start == 1200

\* datetime.time(): the time of day of a datetime
TimeOf(dt) == dt % MinutesPerDay

----------------------------------------------------------------------------
(* TimeConstraintService: texts *)

\* A text is the sequence of its characters; the Korean syllables are
\* written wol hwa su mok geum to il (the weekdays), yo, mae, ju.
weekday_names_kr == <<"wol", "hwa", "su", "mok", "geum", "to", "il">>
weekday_names_en ==
    << <<"m", "o", "n">>, <<"t", "u", "e">>, <<"w", "e", "d">>,
       <<"t", "h", "u">>, <<"f", "r", "i">>, <<"s", "a", "t">>,
       <<"s", "u", "n">> >>

\* str.lower() on one character
LowerChar(c) ==
    CASE c = "M" -> "m" [] c = "T" -> "t" [] c = "W" -> "w" [] c = "F" -> "f"
      [] c = "S" -> "s" [] OTHER -> c

Lower(text) == [k \in 1..Len(text) |-> LowerChar(text[k])]

\* Python's "sub in text"
Contains(sub, text) ==
    \E k \in 0..(Len(text) - Len(sub)) :
        \A o \in 1..Len(sub) : text[k + o] = sub[o]

_is_closed(closed_days, wd) ==
    IF closed_days = NoText THEN FALSE
    ELSE LET today_kr == weekday_names_kr[wd + 1]
             today_en == weekday_names_en[wd + 1]
         IN  \/ Contains(<<today_kr>>, closed_days)
             \/ Contains(<<today_kr, "yo", "il">>, closed_days)
             \/ Contains(today_en, Lower(closed_days))
             \/ Contains(<<"mae", "ju", " ", today_kr>>, closed_days)

\* _parse_operating_hours: [opens, closes], both NoInt when the text is
\* missing or is not two times around "-" or "~"
_parse_operating_hours(hours) ==
    IF hours.sep \in {"-", "~"}
    THEN [opens |-> hours.open, closes |-> hours.close]
    ELSE [opens |-> NoInt, closes |-> NoInt]

----------------------------------------------------------------------------
(* TimeConstraintService.apply_constraints: one day *)

\* lines 87-97
_is_night(p) ==
    IF p.category \in NON_NIGHT_CATEGORIES THEN FALSE
    ELSE p.is_night_place \/ p.night_keyword

\* lines 99-101
_is_meal(p) == p.category \in MealCategories

IsNightPlace(p) == _is_night(p)
IsMealNotNight(p) == _is_meal(p) /\ ~_is_night(p)
IsOther(p) == ~_is_meal(p) /\ ~_is_night(p)

\* line 108: lunch is the day's first restaurant, if it has one
LunchOf(meals) == Slice(meals, 1, 1)

\* a scheduler that keeps every restaurant after the first for dinner
DinnerOfRest(meals) == Slice(meals, 2, Len(meals))

\* line 109: dinner is the day's second restaurant, if it has one
DinnerOf(meals) == Slice(meals, 2, 2)

\* lines 103-123: morning, lunch, afternoon, dinner, night places
Resequenced(ps) ==
    LET night_places == SelectSeq(ps, IsNightPlace)
        meals == SelectSeq(ps, IsMealNotNight)
        others == SelectSeq(ps, IsOther)
        split == Min(Len(others) \div 2, 2)
        morning == Slice(others, 1, split)
        afternoon == Slice(others, split + 1, Len(others))
    IN  morning \o LunchOf(meals) \o afternoon \o DinnerOf(meals)
            \o night_places

\* a scheduler that pushes a restaurant to lunch but never to dinner
MealPushLunchOnly(p, arrival_time, cur) ==
    IF p.category \in MealCategories /\ TimeOf(arrival_time) < lunch_start
    THEN [arrival_time |-> lunch_start, current_time |-> Max(cur, lunch_start)]
    ELSE [arrival_time |-> arrival_time, current_time |-> cur]

\* lines 135-153: a restaurant is pushed to lunch or to dinner; the result
\* is [arrival_time, current_time]
MealPush(p, arrival_time, cur) ==
    LET t == TimeOf(arrival_time)
        at(meal_time) == [arrival_time |-> meal_time,
                          current_time |-> Max(cur, meal_time)]
    IN  IF p.category \in MealCategories /\ t < lunch_start
        THEN at(lunch_start)
        ELSE IF p.category \in MealCategories
                /\ lunch_end <= t /\ t < dinner_start
        THEN at(dinner_start)
        ELSE [arrival_time |-> arrival_time, current_time |-> cur]

\* a scheduler that leaves a night place at its computed arrival
NightPushNever(p, arrival_time, cur) ==
    [arrival_time |-> arrival_time, current_time |-> cur]

\* lines 155-161: a night place is pushed to 20:00
NightPush(p, arrival_time, cur) ==
    IF _is_night(p) /\ TimeOf(arrival_time) < night_start
    THEN [arrival_time |-> night_start, current_time |-> Max(cur, night_start)]
    ELSE [arrival_time |-> arrival_time, current_time |-> cur]

\* a scheduler that leaves an early arrival where it is
WaitForOpeningNever(hours, arrival_time) == arrival_time

\* lines 177-179: an arrival before the opening time waits for it
WaitForOpening(hours, arrival_time) ==
    IF hours.opens # NoInt /\ TimeOf(arrival_time) < hours.opens
    THEN hours.opens ELSE arrival_time

\* a scheduler that takes the suggested stay as it is
StayDurationUnscaled(p, pc_cfg) ==
    LET gpt_suggested == p.suggested_stay_duration
    IN  IF gpt_suggested # NoInt /\ 15 <= gpt_suggested /\ gpt_suggested <= 300
        THEN gpt_suggested
        ELSE (DEFAULT_STAY_DURATION(p.category) * pc_cfg.stay_multiplier)
                 \div 10

\* lines 190-197
StayDuration(p, pc_cfg) ==
    LET gpt_suggested == p.suggested_stay_duration
    IN  IF gpt_suggested # NoInt /\ 15 <= gpt_suggested /\ gpt_suggested <= 300
        THEN (gpt_suggested * pc_cfg.stay_multiplier) \div 10
        ELSE (DEFAULT_STAY_DURATION(p.category) * pc_cfg.stay_multiplier)
                 \div 10

Warning(kind, p) == [kind |-> kind, place_id |-> p.place_id]

\* a scheduler that never finds an arrival too late
ArrivesAfterEndNever(arrival_time, end_datetime) == FALSE

\* line 203: the arrival is at or after the end of the day
ArrivesAfterEnd(arrival_time, end_datetime) == arrival_time >= end_datetime

\* lines 127-220: one pass of the loop over the day's places.  The result
\* tells whether the place was kept (step), the place as appended, the
\* clock after the pass and the warnings the pass emitted.
StopStep(p, cur, end_datetime, pace_name, wd) ==
    LET pace_config == PACE_CONFIG(pace_name)
        travel_time == IF p.travel_time_from_prev = NoInt THEN 0
                       ELSE p.travel_time_from_prev
        a0 == cur + travel_time
        meal == MealPush(p, a0, cur)
        night == NightPush(p, meal.arrival_time, meal.current_time)
        cur2 == night.current_time
        closed == _is_closed(p.closed_days, wd)
        w1 == IF closed /\ p.must_visit THEN <<Warning("closed", p)>> ELSE <<>>
        hours == _parse_operating_hours(p.operating_hours)
        a3 == WaitForOpening(hours, night.arrival_time)
        after_close == hours.closes # NoInt /\ TimeOf(a3) >= hours.closes
        w2 == IF after_close /\ p.must_visit THEN <<Warning("hours", p)>>
              ELSE <<>>
        stay_duration == StayDuration(p, pace_config)
        finish_time == a3 + stay_duration
        too_late == ArrivesAfterEnd(a3, end_datetime)
        w3 == IF too_late /\ p.must_visit THEN <<Warning("late", p)>>
              ELSE IF ~too_late /\ finish_time > end_datetime
              THEN <<Warning("over_end", p)>>
              ELSE <<>>
        dropped(step, ws) == [step |-> step, place |-> p,
                              current_time |-> cur2, warnings |-> ws]
    IN  IF closed /\ ~p.must_visit THEN dropped("dropped_closed", <<>>)
        ELSE IF after_close /\ ~p.must_visit
        THEN dropped("dropped_hours", w1)
        ELSE IF too_late /\ ~p.must_visit
        THEN dropped("dropped_late", w1 \o w2)
        ELSE [step |-> "kept",
              place |-> [p EXCEPT !.suggested_arrival_time = TimeOf(a3),
                                  !.suggested_stay_duration = stay_duration],
              current_time |-> finish_time + pace_config.buffer_time,
              warnings |-> w1 \o w2 \o w3]

\* lines 223-224: order_index is the position among the stops kept
ReassignOrderIndex(ps) ==
    [k \in 1..Len(ps) |-> [ps[k] EXCEPT !.order_index = k]]

\* lines 125-226 for one day: the walk from position k on; acc is
\* [current_time, day_itineraries, warnings]
RECURSIVE ScheduleWalk(_, _, _, _, _, _)
ScheduleWalk(ps, k, acc, end_datetime, pace_name, wd) ==
    IF k > Len(ps) THEN acc
    ELSE LET r == StopStep(ps[k], acc.current_time, end_datetime, pace_name, wd)
         IN  ScheduleWalk(ps, k + 1,
                 [current_time |-> r.current_time,
                  day_itineraries |->
                      IF r.step = "kept"
                      THEN Append(acc.day_itineraries, r.place)
                      ELSE acc.day_itineraries,
                  warnings |-> acc.warnings \o r.warnings],
                 end_datetime, pace_name, wd)

\* lines 78-226 for one day: [day_itineraries, warnings]
ScheduleDay(ps, start, end, pace_name, wd) ==
    LET w == ScheduleWalk(Resequenced(ps), 1,
                 [current_time |-> start, day_itineraries |-> <<>>,
                  warnings |-> <<>>],
                 end, pace_name, wd)
    IN  [day_itineraries |-> ReassignOrderIndex(w.day_itineraries),
         warnings |-> w.warnings]

----------------------------------------------------------------------------
(* apply_constraints on one day, one loop pass at a time *)

MondayClosed == <<"wol", "yo", "il">>

\* the places a day is drawn from: restaurants, sights, nature and night
\* places, a cafe; with and without must_visit, closed days, opening hours
\* and a suggested stay
SchedCatalog ==
    << Place(1, "matjip", 0, 0, FALSE, FALSE, FALSE, NoText, NoHours, 60),
       Place(2, "sikdang", 3, 0, FALSE, FALSE, FALSE, NoText,
             Hours(1020, "-", 1320), 300),
       Place(3, "matjip", 3, 4, TRUE, FALSE, FALSE, MondayClosed, NoHours, 60),
       Place(4, "gwangwangji", 0, 0, FALSE, TRUE, FALSE, NoText,
             Hours(600, "-", 1080), NoInt),
       Place(5, "gwangwangji", 3, 0, TRUE, FALSE, FALSE, NoText,
             Hours(540, "~", 1020), 300),
       Place(6, "jayeon", 60, 0, FALSE, FALSE, TRUE, NoText, NoHours, 60),
       Place(7, "jayeon", 3, 4, TRUE, TRUE, FALSE, NoText, NoHours, 300),
       Place(8, "jayeon", 0, 0, FALSE, FALSE, FALSE, MondayClosed, NoHours, 10),
       Place(9, "kape", 3, 4, FALSE, FALSE, FALSE, NoText,
             Hours(600, "to", 1320), 45),
       Place(10, "sikdang", 3, 0, FALSE, FALSE, FALSE, MondayClosed, NoHours,
             60) >>

\* the days of n different places of the catalog, in every order
CatalogDays(n) ==
    {[k \in 1..n |-> SchedCatalog[pick[k]]] :
        pick \in {f \in [1..n -> 1..Len(SchedCatalog)] :
                     \A a, b \in 1..n : a # b => f[a] # f[b]}}

RoutingDown(n) == [k \in 2..n |-> [duration |-> 0, distance |-> 0]]

\* a day as the optimizer hands it to the scheduler when the routing
\* collaborator is unavailable
AsOptimized(ps) == AssignOrderIndex(_add_travel_times(ps, RoutingDown(Len(ps))))

\* preference.preferred_start_time: unset (09:00), 15:00 or 20:00
DayStarts == {DefaultDayStart, 900, 1200}
\* the trip day falls on a Monday, a Wednesday or a Sunday
SchedWeekdays == {0, 2, 6}

InitSched ==
    /\ pc = "schedule"
    /\ IdleReq /\ route_responses = <<>>
    /\ \E n \in 0..MaxStops : \E d \in CatalogDays(n) : places = AsOptimized(d)
    /\ pace \in Paces
    /\ day_start \in DayStarts
    /\ day_end = DefaultDayEnd
    /\ weekday \in SchedWeekdays
    /\ seq_places = <<>> /\ idx = 0 /\ current_time = 0
    /\ day_itineraries = <<>> /\ warnings = <<>> /\ last_step = None
    /\ route = <<>>
    /\ start_location = NoPoint /\ end_location = NoPoint /\ optimized = <<>>
    /\ IdleTwoOpt
    /\ IdleGen

\* lines 79-125: the day's clock is set and the day is re-sequenced
SchedResequence ==
    /\ pc = "schedule"
    /\ seq_places' = Resequenced(places)
    /\ current_time' = day_start
    /\ day_itineraries' = <<>>
    /\ idx' = 1
    /\ pc' = "walk"
    /\ UNCHANGED <<reqVars, route_responses, route, places, twoVars, optVars, pace, day_start, day_end,
                   warnings, last_step, weekday, genVars>>

\* lines 127-220: one pass of the loop
SchedStop ==
    /\ pc = "walk"
    /\ idx <= Len(seq_places)
    /\ LET r == StopStep(seq_places[idx], current_time, day_end, pace, weekday)
       IN  /\ current_time' = r.current_time
           /\ day_itineraries' = IF r.step = "kept"
                                 THEN Append(day_itineraries, r.place)
                                 ELSE day_itineraries
           /\ warnings' = warnings \o r.warnings
           /\ last_step' = r.step
    /\ idx' = idx + 1
    /\ UNCHANGED <<reqVars, route_responses, pc, route, places, twoVars, optVars, pace, day_start,
                   day_end, seq_places, weekday, genVars>>

\* lines 222-226: the loop is over and order_index is rewritten
SchedFinish ==
    /\ pc = "walk"
    /\ idx > Len(seq_places)
    /\ day_itineraries' = ReassignOrderIndex(day_itineraries)
    /\ pc' = "scheduled"
    /\ UNCHANGED <<reqVars, route_responses, route, places, twoVars, optVars, pace, day_start, day_end,
                   seq_places, idx, current_time, warnings, last_step, weekday,
                   genVars>>

NextSched == SchedResequence \/ SchedStop \/ SchedFinish

SpecSched == InitSched /\ [][NextSched]_vars

\* how many stops of a list carry the place id
Occurrences(ps, id) == Cardinality({k \in 1..Len(ps) : ps[k].place_id = id})

IsRestaurant(p) == p.category \in MealCategories

\* C2: every must_visit stop given to the scheduler is in the day's output
\* exactly once.
C2_MustVisitKept ==
    pc = "scheduled" =>
        \A k \in 1..Len(places) :
            places[k].must_visit =>
                Occurrences(day_itineraries, places[k].place_id) = 1

\* C3: in the day's output arrival_time never decreases along the list.
C3_ArrivalNonDecreasing ==
    pc = "scheduled" =>
        \A k \in 1..(Len(day_itineraries) - 1) :
            day_itineraries[k].suggested_arrival_time
                <= day_itineraries[k + 1].suggested_arrival_time

\* C5: the day's output holds at most 2 restaurant stops.
C5_AtMostTwoRestaurants ==
    pc = "scheduled" =>
        Cardinality({k \in 1..Len(day_itineraries) :
                        IsRestaurant(day_itineraries[k])}) <= 2

\* a day given 3 restaurants, one of them must_visit, and scheduled
C5_Witness ==
    /\ pc = "scheduled"
    /\ Cardinality({k \in 1..Len(places) : IsRestaurant(places[k])}) = 3
    /\ \E k \in 1..Len(places) : IsRestaurant(places[k]) /\ places[k].must_visit
    /\ Cardinality({k \in 1..Len(day_itineraries) :
                       IsRestaurant(day_itineraries[k])}) = 2

\* flagged night-only as the claim reads it: by the draft's flag or by a
\* night keyword, whatever the category
FlaggedNight(p) == p.is_night_place \/ p.night_keyword

NextStop == seq_places[idx]
LastKept == day_itineraries[Len(day_itineraries)]
AtStop == pc = "walk" /\ idx <= Len(seq_places)

\* the arrival the walk has computed for a stop when it comes to the
\* operating hours: clock plus travel, after the meal and night pushes
ArrivalAtHoursCheck(p, cur) ==
    LET travel_time == IF p.travel_time_from_prev = NoInt THEN 0
                       ELSE p.travel_time_from_prev
        meal == MealPush(p, cur + travel_time, cur)
    IN  NightPush(p, meal.arrival_time, meal.current_time).arrival_time

ArrivesEarly(p, cur) ==
    LET hours == _parse_operating_hours(p.operating_hours)
    IN  /\ hours.opens # NoInt
        /\ TimeOf(ArrivalAtHoursCheck(p, cur)) < hours.opens

\* C15: a stop with parseable operating hours whose computed arrival is
\* before the opening time is given exactly the opening time as its arrival
\* when it is kept, and is dropped only under another rule: it is closed
\* that day, or the opening time is not before the closing time or the end
\* of the day.
C15_EarlyArrivalWaitsForOpening ==
    [][(AtStop /\ ArrivesEarly(NextStop, current_time)) =>
          LET p == NextStop
              hours == _parse_operating_hours(p.operating_hours)
          IN  IF last_step' = "kept"
              THEN LastKept'.suggested_arrival_time = hours.opens
              ELSE \/ _is_closed(p.closed_days, weekday)
                   \/ hours.opens >= hours.closes
                   \/ hours.opens >= day_end]_vars

\* a day that starts at 09:00 with a sight that opens at 10:00: the sight is
\* kept with arrival 10:00
C15_Witness ==
    /\ pc = "walk" /\ idx = 2
    /\ day_start = 540
    /\ ~IsRestaurant(seq_places[1])
    /\ _parse_operating_hours(seq_places[1].operating_hours).opens = 600
    /\ last_step = "kept"
    /\ LastKept.suggested_arrival_time = 600

ComputedArrival(p, cur) ==
    cur + (IF p.travel_time_from_prev = NoInt THEN 0
           ELSE p.travel_time_from_prev)

\* C16 as stated: a restaurant whose computed arrival is 15:00 is dropped
\* unless it is must_visit, and a must_visit one is kept with a warning.
C16_AfternoonRestaurantDropped ==
    [][(/\ AtStop
        /\ IsRestaurant(NextStop)
        /\ ComputedArrival(NextStop, current_time) = 900) =>
          IF NextStop.must_visit
          THEN last_step' = "kept" /\ Len(warnings') > Len(warnings)
          ELSE last_step' # "kept"]_vars

\* C16: a restaurant whose computed arrival is from 14:00 to before 18:30 is
\* not dropped for that, must_visit or not: its arrival is pushed to 18:30
\* (or to a later opening time) with no warning, and it is dropped or warned
\* about only under the closed-day, operating-hours and end-of-day rules.
C16_AfternoonRestaurantPushedToDinner ==
    [][(/\ AtStop
        /\ IsRestaurant(NextStop)
        /\ TimeOf(ComputedArrival(NextStop, current_time)) >= lunch_end
        /\ TimeOf(ComputedArrival(NextStop, current_time)) < dinner_start) =>
          LET p == NextStop
              hours == _parse_operating_hours(p.operating_hours)
              arrival == IF hours.opens # NoInt /\ dinner_start < hours.opens
                         THEN hours.opens ELSE dinner_start
              closed == _is_closed(p.closed_days, weekday)
              after_close == hours.closes # NoInt /\ arrival >= hours.closes
              late == arrival >= day_end
              over_end == arrival + StayDuration(p, PACE_CONFIG(pace)) > day_end
          IN  /\ last_step' = "kept" =>
                     LastKept'.suggested_arrival_time = arrival
              /\ last_step' # "kept" =>
                     ~p.must_visit /\ (closed \/ after_close \/ late)
              /\ ~(closed \/ after_close \/ late \/ over_end) =>
                     warnings' = warnings]_vars

\* a day that starts at 15:00 with a restaurant that is not must_visit: the
\* restaurant is kept with arrival 18:30 and no warning
C16_Witness ==
    /\ pc = "walk" /\ idx = 2
    /\ day_start = 900
    /\ IsRestaurant(seq_places[1])
    /\ ~seq_places[1].must_visit
    /\ last_step = "kept"
    /\ LastKept.suggested_arrival_time = dinner_start
    /\ warnings = <<>>

----------------------------------------------------------------------------
(* _two_opt as a function of any matrix and tour *)

\* the pairs a < b of 1..n: the entries line 218-224 computes
MatrixPairs(n) == {pr \in (1..n) \X (1..n) : pr[1] < pr[2]}

\* the symmetric matrix with zero diagonal whose entries above it are u
SymmetricMatrix(n, u) ==
    [a \in 1..n |-> [b \in 1..n |->
        IF a = b THEN 0 ELSE u[<<Min(a, b), Max(a, b)>>]]]

InitTwoOpt ==
    /\ pc = "tour"
    /\ IdleReq /\ route_responses = <<>>
    /\ \E n \in TourSizes :
          /\ \E u \in [MatrixPairs(n) -> 1..MaxDist] :
                matrix = SymmetricMatrix(n, u)
          /\ route \in Perms(n)
    /\ route_once = <<>>
    /\ route_twice = <<>>
    /\ places = <<>>
    /\ start_location = NoPoint /\ end_location = NoPoint /\ optimized = <<>>
    /\ IdleSched
    /\ IdleGen

TwoOptFirst ==
    /\ pc = "tour"
    /\ route_once' = _two_opt(route, matrix)
    /\ pc' = "once"
    /\ UNCHANGED <<reqVars, route_responses, matrix, route, route_twice, places, optVars, schedVars,
                   genVars>>

TwoOptAgain ==
    /\ pc = "once"
    /\ route_twice' = _two_opt(route_once, matrix)
    /\ pc' = "twice"
    /\ UNCHANGED <<reqVars, route_responses, matrix, route, route_once, places, optVars, schedVars,
                   genVars>>

NextTwoOpt == TwoOptFirst \/ TwoOptAgain

SpecTwoOpt == InitTwoOpt /\ [][NextTwoOpt]_vars

\* C7: the tour _two_opt returns is never longer than the tour it was given,
\* for every symmetric matrix over more than 2 places.
C7_TwoOptNeverLonger ==
    pc \in {"once", "twice"} =>
        _route_distance(route_once, matrix) <= _route_distance(route, matrix)

\* a run in which _two_opt returned a strictly shorter tour than it was given
C7_Witness ==
    /\ pc = "once"
    /\ Len(route) > 2
    /\ _route_distance(route_once, matrix) < _route_distance(route, matrix)

\* C8: _two_opt applied to its own output returns that output.
C8_TwoOptIdempotent ==
    pc = "twice" => route_twice = route_once

\* a run in which the first application changed the tour and the second
\* application has been made
C8_Witness ==
    /\ pc = "twice"
    /\ route_once # route
    /\ route_twice = route_once

----------------------------------------------------------------------------
(* PlannerService.generate: draft, places by day, optimize, constraints *)

\* most place entries in one draft
MaxDraftEntries == 4

\* line 77: place_dict maps a place id to its candidate, the last of them
\* when an id repeats
PlaceDict(cands) ==
    [id \in {cands[k].place_id : k \in 1..Len(cands)} |->
        LET last == CHOOSE k \in 1..Len(cands) :
                        /\ cands[k].place_id = id
                        /\ \A o \in 1..Len(cands) :
                               cands[o].place_id = id => o <= k
        IN  cands[last]]

\* a mapping that never takes a place for already placed
AlreadyPlacedNever(place_id, used_place_ids) == FALSE

\* line 436, second half: the place is already in some day of the result
AlreadyPlaced(place_id, used_place_ids) == place_id \in used_place_ids

\* lines 433-448: the loop over one day's place entries, from k on; acc is
\* [places, used_place_ids]
RECURSIVE BuildDayPlaces(_, _, _, _, _)
BuildDayPlaces(entries, k, day_num, place_dict, acc) ==
    IF k > Len(entries) THEN acc
    ELSE LET place_data == entries[k]
             place_id == place_data.place_id
         IN  IF place_id \notin DOMAIN place_dict
                \/ AlreadyPlaced(place_id, acc.used_place_ids)
             THEN BuildDayPlaces(entries, k + 1, day_num, place_dict, acc)
             ELSE BuildDayPlaces(entries, k + 1, day_num, place_dict,
                      [places |-> Append(acc.places,
                           [place_dict[place_id] EXCEPT
                               !.order_index = place_data.order,
                               !.suggested_stay_duration =
                                   place_data.stay_duration,
                               !.is_night_place = place_data.is_night]),
                       used_place_ids |-> acc.used_place_ids \cup {place_id}])

\* result[day_num] = places
DictSet(dict, key, value) ==
    [d \in (DOMAIN dict) \cup {key} |-> IF d = key THEN value ELSE dict[d]]

\* lines 429-450: the loop over the draft's days, from k on; acc is
\* [result, used_place_ids]
RECURSIVE BuildDays(_, _, _, _)
BuildDays(days, k, place_dict, acc) ==
    IF k > Len(days) THEN acc.result
    ELSE LET day == BuildDayPlaces(days[k].places, 1, days[k].day_number,
                        place_dict,
                        [places |-> <<>>, used_place_ids |-> acc.used_place_ids])
         IN  BuildDays(days, k + 1, place_dict,
                 [result |-> DictSet(acc.result, days[k].day_number, day.places),
                  used_place_ids |-> day.used_place_ids])

_build_places_by_day(d, place_dict) ==
    BuildDays(d, 1, place_dict, [result |-> <<>>, used_place_ids |-> {}])

\* the hops optimize asks the routing collaborator about: day and position
HopsOf(by_day) ==
    {h \in (DOMAIN by_day) \X (2..MaxDraftEntries) : h[2] <= Len(by_day[h[1]])}

\* RouteOptimizer.optimize, lines 35-84, over every day; info[<<d, k>>] is
\* what get_route_info returns for the hop into position k of day d
optimize(by_day, start, end, info) ==
    [d \in DOMAIN by_day |->
        LET ps == by_day[d]
            reordered == Reordered(ps, OptimizeRoute(ps, start, end))
        IN  AssignOrderIndex(
                _add_travel_times(reordered,
                    [k \in 2..Len(reordered) |-> info[<<d, k>>]]))]

\* date.weekday() of start_date + timedelta(days = day_num - 1)
WeekdayOfDay(start_weekday, day_num) == (start_weekday + day_num - 1) % 7

\* the day numbers of a draft in the order of their first day object: the
\* order in which the dicts built from it hold their days
RECURSIVE KeyOrder(_, _)
KeyOrder(days, seen) ==
    IF days = <<>> THEN <<>>
    ELSE IF Head(days).day_number \in seen THEN KeyOrder(Tail(days), seen)
    ELSE <<Head(days).day_number>>
             \o KeyOrder(Tail(days), seen \cup {Head(days).day_number})

\* apply_constraints, lines 63-228, over every day; keys lists the days in
\* the order the loop of line 78 meets them
apply_constraints(by_day, keys, start, end, pace_name, start_weekday) ==
    LET day(d) == ScheduleDay(by_day[d], start, end, pace_name,
                              WeekdayOfDay(start_weekday, d))
        Warns[n \in 0..Len(keys)] ==
            IF n = 0 THEN <<>> ELSE Warns[n - 1] \o day(keys[n]).warnings
    IN  [result |-> [d \in DOMAIN by_day |-> day(d).day_itineraries],
         warnings |-> Warns[Len(keys)]]

\* the candidates of the request: a restaurant, a sight with opening hours
\* and a nature place closed on Mondays
GenCandidates ==
    << Place(1, "matjip", 0, 0, FALSE, FALSE, FALSE, NoText, NoHours, NoInt),
       Place(2, "gwangwangji", 3, 4, FALSE, FALSE, FALSE, NoText,
             Hours(600, "-", 1080), NoInt),
       Place(3, "jayeon", 60, 0, FALSE, FALSE, FALSE, MondayClosed, NoHours,
             NoInt) >>

\* a place id no candidate has
UnknownPlaceId == Len(GenCandidates) + 1

DraftPlaceIds == {1, 2, 3, UnknownPlaceId}
DraftDayNumbers == {1, 2}

\* the draft names each place with the same stay and night flag wherever it
\* names it
DraftEntry(place_id, order) ==
    [place_id |-> place_id, order |-> order,
     stay_duration |-> IF place_id = 2 THEN 300 ELSE 60,
     is_night |-> place_id = 3]

\* the day objects of a draft written as a list of <<day_number, place_id>>:
\* each run of equal day numbers is one day object
RECURSIVE DraftDays(_)
DraftDays(flat) ==
    IF flat = <<>> THEN <<>>
    ELSE LET rest == DraftDays(Tail(flat))
             dn == Head(flat)[1]
             id == Head(flat)[2]
         IN  IF rest # <<>> /\ Head(rest).day_number = dn
             THEN <<[day_number |-> dn,
                     places |-> <<id>> \o Head(rest).places]>> \o Tail(rest)
             ELSE <<[day_number |-> dn, places |-> <<id>>]>> \o rest

WithOrders(days) ==
    [k \in 1..Len(days) |->
        [day_number |-> days[k].day_number,
         places |-> [o \in 1..Len(days[k].places) |->
                        DraftEntry(days[k].places[o], o)]]]

InitGen ==
    /\ pc = "build"
    /\ IdleReq /\ route_responses = <<>>
    /\ \E n \in 0..MaxDraftEntries :
          \E flat \in [1..n -> DraftDayNumbers \X DraftPlaceIds] :
              draft = WithOrders(DraftDays(flat))
    /\ places_by_day = <<>>
    /\ optimized_by_day = <<>>
    /\ constrained = <<>>
    /\ gen_warnings = <<>>
    /\ places = <<>> /\ route = <<>>
    /\ start_location = NoPoint /\ end_location = NoPoint /\ optimized = <<>>
    /\ IdleTwoOpt
    /\ IdleSched

\* generate, lines 75-79
GenBuildPlacesByDay ==
    /\ pc = "build"
    /\ places_by_day' = _build_places_by_day(draft, PlaceDict(GenCandidates))
    /\ pc' = "optimize"
    /\ UNCHANGED <<reqVars, route_responses, route, places, twoVars, optVars, schedVars, draft,
                   optimized_by_day, constrained, gen_warnings>>

\* generate, lines 81-88
GenOptimize ==
    /\ pc = "optimize"
    /\ \E info \in [HopsOf(places_by_day) -> RouteOutcomes] :
          optimized_by_day' = optimize(places_by_day, start_location,
                                       end_location, info)
    /\ pc' = "constrain"
    /\ UNCHANGED <<reqVars, route_responses, route, places, twoVars, optVars, schedVars, draft,
                   places_by_day, constrained, gen_warnings>>

\* generate, lines 90-97: no stored preference, a trip that starts on a
\* Monday
GenApplyConstraints ==
    /\ pc = "constrain"
    /\ LET r == apply_constraints(optimized_by_day, KeyOrder(draft, {}),
                                  DefaultDayStart, DefaultDayEnd, "moderate", 0)
       IN  /\ constrained' = r.result
           /\ gen_warnings' = r.warnings
    /\ pc' = "save"
    /\ UNCHANGED <<reqVars, route_responses, route, places, twoVars, optVars, schedVars, draft,
                   places_by_day, optimized_by_day>>

NextGen == GenBuildPlacesByDay \/ GenOptimize \/ GenApplyConstraints

SpecGen == InitGen /\ [][NextGen]_vars

\* every <<day, position>> of a dict of days
StopsOf(by_day) ==
    {h \in (DOMAIN by_day) \X (1..MaxDraftEntries) : h[2] <= Len(by_day[h[1]])}

EachIdOnce(by_day) ==
    \A g, h \in StopsOf(by_day) :
        by_day[g[1]][g[2]].place_id = by_day[h[1]][h[2]].place_id => g = h

OnlyCandidates(by_day) ==
    \A h \in StopsOf(by_day) :
        \E k \in 1..Len(GenCandidates) :
            GenCandidates[k].place_id = by_day[h[1]][h[2]].place_id

\* C1: whatever the draft, the days built from it, the optimized days and
\* the itinerary hold each place id at most once across all days, and only
\* ids of candidates.
C1_EachPlaceOnceFromPool ==
    /\ pc \in {"optimize", "constrain", "save"} =>
           EachIdOnce(places_by_day) /\ OnlyCandidates(places_by_day)
    /\ pc \in {"constrain", "save"} =>
           EachIdOnce(optimized_by_day) /\ OnlyCandidates(optimized_by_day)
    /\ pc = "save" => EachIdOnce(constrained) /\ OnlyCandidates(constrained)

DraftIds(day) == {day.places[k].place_id : k \in 1..Len(day.places)}

\* a draft that names one candidate in two days, names a candidate twice in
\* one day and names an unknown id, with the itinerary made and not empty
C1_Witness ==
    /\ pc = "save"
    /\ Len(draft) >= 2
    /\ DraftIds(draft[1]) \cap DraftIds(draft[2])
           \cap {GenCandidates[k].place_id : k \in 1..Len(GenCandidates)} # {}
    /\ \E d \in 1..Len(draft) :
          Cardinality(DraftIds(draft[d])) < Len(draft[d].places)
    /\ \E d \in 1..Len(draft) : UnknownPlaceId \in DraftIds(draft[d])
    /\ StopsOf(constrained) # {}

OrderIndexIsPosition(by_day) ==
    \A h \in StopsOf(by_day) : by_day[h[1]][h[2]].order_index = h[2]

\* C4: after the optimizer, and again after the scheduler, the order_index
\* values of each day's stops are 1..n in list order.
C4_OrderIndexContiguous ==
    /\ pc \in {"constrain", "save"} => OrderIndexIsPosition(optimized_by_day)
    /\ pc = "save" => OrderIndexIsPosition(constrained)

\* a day of 3 stops that the optimizer reordered and of which the scheduler
\* dropped one and kept two
C4_Witness ==
    /\ pc = "save"
    /\ \E d \in DOMAIN constrained :
          /\ Len(optimized_by_day[d]) = 3
          /\ IdsOf(optimized_by_day[d]) # IdsOf(places_by_day[d])
          /\ Len(constrained[d]) = 2

\* C18: in every day of the itinerary generate hands to _save_trip,
\* travel_time_from_prev is None on the first stop and a number on every
\* later stop.
C18_FirstStopTravelNull ==
    pc = "save" =>
        \A h \in StopsOf(constrained) :
            (constrained[h[1]][h[2]].travel_time_from_prev = NoInt) <=> (h[2] = 1)

----------------------------------------------------------------------------
(* PlannerService._gather_candidates *)

\* most ids in request.must_visit_places
MaxMustVisit == 2

\* a row of the place table as _gather_candidates sees it: the place, the
\* region its address names, its readcount (NoInt is NULL) and the
\* final_score the recommender gives it, in hundredths
StoreRow(place, address, readcount, final_score) ==
    [place |-> place, address |-> address, readcount |-> readcount,
     final_score |-> final_score]

\* request.region: a region with places, and one the table has no data for
Regions == {"busan", "jeju"}

\* the place table: two restaurants, a sight, a nature place and a cafe in
\* one region, and a restaurant in another
PlaceStore ==
    << StoreRow(Place(1, "matjip", 0, 0, FALSE, FALSE, FALSE, NoText, NoHours,
                      NoInt), "busan", 50, 70),
       StoreRow(Place(2, "gwangwangji", 3, 4, FALSE, FALSE, FALSE, NoText,
                      Hours(600, "-", 1080), NoInt), "busan", 90, 80),
       StoreRow(Place(3, "jayeon", 60, 0, FALSE, FALSE, FALSE, MondayClosed,
                      NoHours, NoInt), "busan", NoInt, 60),
       StoreRow(Place(4, "matjip", 3, 0, FALSE, FALSE, FALSE, NoText, NoHours,
                      NoInt), "busan", 30, 40),
       StoreRow(Place(5, "kape", 3, 4, FALSE, FALSE, FALSE, NoText, NoHours,
                      NoInt), "busan", NoInt, 30),
       StoreRow(Place(6, "matjip", 60, 0, FALSE, FALSE, FALSE, NoText, NoHours,
                      NoInt), "seoul", 99, 95) >>

StoreIds == {PlaceStore[k].place.place_id : k \in 1..Len(PlaceStore)}

\* trip_crud.get_place_by_id for an id of the table
RowOf(place_id) ==
    PlaceStore[CHOOSE k \in 1..Len(PlaceStore) :
                   PlaceStore[k].place.place_id = place_id]

\* a candidate dict: the place's fields with score, must_visit and
\* meal_candidate (a key the dict lacks reads as FALSE)
Candidate(place, score, must_visit, meal_candidate) ==
    [f \in DOMAIN place \cup {"score", "meal_candidate"} |->
        IF f = "score" THEN score
        ELSE IF f = "meal_candidate" THEN meal_candidate
        ELSE IF f = "must_visit" THEN must_visit
        ELSE place[f]]

\* the ids of a set in the order of a descending sort on key[id]
RECURSIVE SortedDesc(_, _)
SortedDesc(ids, key) ==
    IF ids = {} THEN <<>>
    ELSE LET top == CHOOSE a \in ids : \A b \in ids : key[b] <= key[a]
         IN  <<top>> \o SortedDesc(ids \ {top}, key)

\* recommend, lines 82-107, for the places its filter selected: sorted by
\* final_score, highest first
Recommend(selected) ==
    SortedDesc(selected, [id \in StoreIds |-> RowOf(id).final_score])

\* lines 158-175
ScorerCandidates(recs) ==
    [k \in 1..Len(recs) |->
        Candidate(RowOf(recs[k]).place, RowOf(recs[k]).final_score,
                  FALSE, FALSE)]

CandidateIds(cands) == {cands[k].place_id : k \in 1..Len(cands)}

\* lines 180-198: the loop over must_visit_places from position k on;
\* existing_ids is the set line 179 computed before the loop
RECURSIVE InsertMustVisit(_, _, _, _)
InsertMustVisit(cands, must_visit, k, existing_ids) ==
    IF k > Len(must_visit) THEN cands
    ELSE IF must_visit[k] \notin existing_ids /\ must_visit[k] \in StoreIds
    THEN InsertMustVisit(
             <<Candidate(RowOf(must_visit[k]).place, 100, TRUE, FALSE)>>
                 \o cands,
             must_visit, k + 1, existing_ids)
    ELSE InsertMustVisit(cands, must_visit, k + 1, existing_ids)

\* lines 205 and 211: the categories with a floor, in the order of the dict
FloorCategories == <<"matjip", "kape">>
min_counts(cat, total_days) ==
    IF cat = "matjip" THEN total_days * 2 ELSE total_days

CountOf(cands, cat) ==
    Cardinality({k \in 1..Len(cands) : cands[k].category = cat})

\* lines 214-222: the rows of the region and category not yet candidates,
\* most read first and NULL readcounts last, at most shortage + 2 of them
ExtraRows(cat, existing_ids, shortage, reg) ==
    LET ids == {id \in StoreIds \ existing_ids :
                   RowOf(id).address = reg /\ RowOf(id).place.category = cat}
    IN  Slice(SortedDesc(ids, [id \in StoreIds |-> RowOf(id).readcount]),
              1, shortage + 2)

\* lines 211-240 from category c on; the counts are those of line 207-209,
\* taken before the loop
RECURSIVE FloorRepair(_, _, _, _, _, _)
FloorRepair(cands, counted, c, existing_ids, total_days, reg) ==
    IF c > Len(FloorCategories) THEN cands
    ELSE LET cat == FloorCategories[c]
             shortage == min_counts(cat, total_days) - CountOf(counted, cat)
             extra == IF shortage > 0
                      THEN ExtraRows(cat, existing_ids, shortage, reg)
                      ELSE <<>>
         IN  FloorRepair(
                 cands \o [k \in 1..Len(extra) |->
                              Candidate(RowOf(extra[k]).place, 85, FALSE, TRUE)],
                 counted, c + 1, existing_ids \cup Range(extra), total_days,
                 reg)

_gather_candidates(recs, must_visit, total_days, reg) ==
    LET scored == ScorerCandidates(recs)
        forced == InsertMustVisit(scored, must_visit, 1, CandidateIds(scored))
    IN  FloorRepair(forced, forced, 1, CandidateIds(forced), total_days, reg)

\* _filter_places, lines 118-119
InRegionIds(reg) == {id \in StoreIds : RowOf(id).address = reg}
UnknownStoreId == Len(PlaceStore) + 1
MustVisitLists ==
    UNION {[1..n -> StoreIds \cup {UnknownStoreId}] : n \in 0..MaxMustVisit}

IdleOpt ==
    /\ places = <<>> /\ route = <<>>
    /\ start_location = NoPoint /\ end_location = NoPoint /\ optimized = <<>>
    /\ route_responses = <<>>

\* request.exclude_places: nothing, or some of the two restaurants and the
\* cafe of the region
ExcludeSets == SUBSET {1, 4, 5}

\* a request for a one day trip: the recommender's filter (region, excluded
\* places, themes) selects some places of the region that are not excluded
InitCand ==
    /\ pc = "gather"
    /\ region \in Regions
    /\ exclude_places \in ExcludeSets
    /\ \E selected \in SUBSET InRegionIds(region) :
          recommended = Recommend(selected \ exclude_places)
    /\ must_visit_places \in MustVisitLists
    /\ candidates = <<>>
    /\ attempt = 0 /\ gpt_log = <<>> /\ error = None /\ itineraries = <<>>
    /\ parsed = <<>> /\ trip_created = FALSE
    /\ IdleOpt /\ IdleTwoOpt /\ IdleSched /\ IdleGen

GatherCandidates ==
    /\ pc = "gather"
    /\ candidates' = _gather_candidates(recommended, must_visit_places, 1,
                                        region)
    /\ pc' = "gathered"
    /\ UNCHANGED <<route, places, twoVars, optVars, schedVars, genVars,
                   route_responses, recommended, must_visit_places, attempt,
                   gpt_log, error, itineraries, region, parsed, trip_created,
                   exclude_places>>

SpecCand == InitCand /\ [][GatherCandidates]_vars

\* C19: every id of must_visit_places that is in the place table is a
\* candidate with must_visit set and score 1.0.
C19_MustVisitForced ==
    pc = "gathered" =>
        \A id \in Range(must_visit_places) \cap StoreIds :
            \E k \in 1..Len(candidates) :
                /\ candidates[k].place_id = id
                /\ candidates[k].must_visit
                /\ candidates[k].score = 100

\* C20: the candidate list holds each place id at most once, and a place
\* that is must-visit is in it as the must-visit entry.
C20_CandidateIdsUnique ==
    pc = "gathered" =>
        /\ \A j, k \in 1..Len(candidates) :
               candidates[j].place_id = candidates[k].place_id => j = k
        /\ \A k \in 1..Len(candidates) :
               (/\ candidates[k].place_id \in Range(must_visit_places)
                /\ candidates[k].place_id \notin Range(recommended))
                   => candidates[k].must_visit

----------------------------------------------------------------------------
(* PlannerService._generate_with_gpt and _parse_gpt_response *)

\* line 333: range(3)
MaxAttempts == 3

\* The text of a response is a sequence of tokens: a code fence that opens
\* or closes, prose without braces, a lone opening brace (a truncated
\* object), the brackets and commas of an array, and a complete JSON object
\* with its value.
Tok(t) == [tok |-> t]
Obj(value) == [tok |-> "obj", value |-> value]

\* lines 407-409: a text that starts with a fence loses it, and then a
\* fence at its end
StripFences(text) ==
    IF text # <<>> /\ text[1].tok = "fence_open"
    THEN LET rest == Tail(text)
         IN  IF rest # <<>> /\ rest[Len(rest)].tok = "fence_close"
             THEN Slice(rest, 1, Len(rest) - 1) ELSE rest
    ELSE text

\* whether a text is one JSON array of objects: [ obj , obj ... ]
IsArrayText(text) ==
    /\ Len(text) >= 2
    /\ text[1].tok = "[" /\ text[Len(text)].tok = "]"
    /\ Len(text) = 2 \/ Len(text) % 2 = 1
    /\ \A k \in 2..(Len(text) - 1) :
           text[k].tok = (IF k % 2 = 0 THEN "obj" ELSE ",")

\* json.loads: the value of a text that is exactly one JSON value, else a
\* JSONDecodeError
json_loads(text) ==
    IF Len(text) = 1 /\ text[1].tok = "obj"
    THEN [ok |-> TRUE, json_type |-> "object", value |-> text[1].value]
    ELSE IF IsArrayText(text)
    THEN [ok |-> TRUE, json_type |-> "array",
          value |-> [k \in 1..((Len(text) - 1) \div 2) |-> text[2 * k].value]]
    ELSE [ok |-> FALSE, json_type |-> None, value |-> <<>>]

\* line 415: the greedy match of \{[\s\S]*\}, from the first opening brace
\* of the text to its last closing brace; <<>> when there is none
BraceMatch(text) ==
    LET opens == {k \in 1..Len(text) : text[k].tok \in {"obj", "{"}}
        closes == {k \in 1..Len(text) : text[k].tok = "obj"}
    IN  IF opens = {} \/ closes = {} THEN <<>>
        ELSE LET first == CHOOSE a \in opens : \A b \in opens : a <= b
                 last == CHOOSE a \in closes : \A b \in closes : b <= a
             IN  IF first <= last THEN Slice(text, first, last) ELSE <<>>

\* _parse_gpt_response: the parsed value, or a ValueError (json's
\* JSONDecodeError is one)
_parse_gpt_response(text) ==
    LET stripped == StripFences(text)
        whole == json_loads(stripped)
    IN  IF whole.ok THEN whole
        ELSE IF BraceMatch(stripped) # <<>>
        THEN json_loads(BraceMatch(stripped))
        ELSE [ok |-> FALSE, json_type |-> None, value |-> <<>>]

\* day objects and drafts the generator may write
DraftDay(day_number, ids) ==
    [day_number |-> day_number,
     places |-> [o \in 1..Len(ids) |-> DraftEntry(ids[o], o)]]

DraftObject(days) ==
    [days |-> days, trip_summary |-> "summary", day_summaries |-> <<>>]

GoodDraft == DraftObject(<<DraftDay(1, <<2, 1>>), DraftDay(2, <<3>>)>>)

\* the response texts of the model: drafts of the contract shape (bare,
\* fenced, inside prose), texts that are not JSON, and JSON of other shapes
GptTexts ==
    { <<Obj(GoodDraft)>>,
      <<Tok("fence_open"), Obj(GoodDraft), Tok("fence_close")>>,
      <<Tok("prose"), Obj(DraftObject(<<DraftDay(1, <<3, 2>>)>>)),
        Tok("prose")>>,
      <<Tok("prose")>>,
      <<Tok("{"), Tok("prose")>>,
      <<Tok("prose"), Tok("["), Obj(DraftDay(1, <<1>>)), Tok(","),
        Obj(DraftDay(2, <<2>>)), Tok("]")>>,
      <<Tok("["), Obj(DraftDay(1, <<1>>)), Tok("]")>>,
      <<Obj([trip_summary |-> "summary"])>>,
      <<Obj(DraftObject(<<[places |-> <<DraftEntry(1, 1)>>]>>))>>,
      <<Obj(DraftObject(<<[day_number |-> 1,
                           places |-> <<[order |-> 1]>>]>>))>> }

\* what a call of the draft generator can do: raise (a transport error),
\* answer with no content, or answer with a text
GptResponse(kind, text) == [kind |-> kind, text |-> text]
GptResponses ==
    {GptResponse("raised", <<>>), GptResponse("no_content", <<>>)}
        \cup {GptResponse("text", t) : t \in GptTexts}

----------------------------------------------------------------------------
(* PlannerService.generate_itinerary, from the request to the stored trip *)

\* a pipeline that goes on without candidates
NoCandidatesNever(cands) == FALSE

\* line 64: if not candidates
NoCandidates(cands) == cands = <<>>

\* a loop that also retries after a call that raised or had no content
RetriedAnyError(outcome) == outcome # "parsed"

\* lines 336-340: only a ValueError of the parser is caught and retried
Retried(outcome) == outcome = "ValueError"

\* lines 334-339: how one call of the draft generator ends
OutcomeOf(resp) ==
    IF resp.kind = "raised" THEN "transport"
    ELSE IF resp.kind = "no_content" THEN "AttributeError"
    ELSE IF _parse_gpt_response(resp.text).ok THEN "parsed"
    ELSE "ValueError"

\* draft.get("days", [])
DaysOf(value) == IF "days" \in DOMAIN value THEN value.days ELSE <<>>

\* lines 430 and 434: day_data["day_number"] and place_data["place_id"]
\* raise KeyError on an object without the key
DraftKeyError(days) ==
    \E d \in 1..Len(days) :
        \/ "day_number" \notin DOMAIN days[d]
        \/ \E e \in 1..Len(days[d].places) :
               "place_id" \notin DOMAIN days[d].places[e]

\* _save_trip, lines 484-496: the rows of the itinerary, day by day
RECURSIVE ItineraryRows(_, _)
ItineraryRows(by_day, keys) ==
    IF keys = <<>> THEN <<>>
    ELSE [k \in 1..Len(by_day[Head(keys)]) |->
             LET place == by_day[Head(keys)][k]
             IN  [place_id |-> place.place_id,
                  day_number |-> Head(keys),
                  order_index |-> place.order_index,
                  arrival_time |-> place.suggested_arrival_time,
                  stay_duration |-> place.suggested_stay_duration,
                  travel_time_from_prev |-> place.travel_time_from_prev,
                  transport_mode |-> place.transport_mode]]
         \o ItineraryRows(by_day, Tail(keys))

\* a request for a trip that starts on a Monday, with no stored preference
\* and no anchors: a region with or without data, with or without a
\* must-visit place of another region
InitRequest ==
    /\ pc = "gather"
    /\ region \in Regions
    /\ recommended = Recommend(InRegionIds(region))
    /\ must_visit_places \in {<<>>, <<6>>}
    /\ exclude_places = {}
    /\ candidates = <<>>
    /\ attempt = 0 /\ gpt_log = <<>> /\ error = None /\ itineraries = <<>>
    /\ parsed = <<>> /\ trip_created = FALSE
    /\ IdleOpt /\ IdleTwoOpt /\ IdleSched /\ IdleGen

\* generate_itinerary, lines 58-66
ReqGather ==
    /\ pc = "gather"
    /\ candidates' = _gather_candidates(recommended, must_visit_places, 1,
                                        region)
    /\ IF NoCandidates(candidates')
       THEN error' = "no_candidates" /\ pc' = "failed"
       ELSE error' = error /\ pc' = "draft"
    /\ UNCHANGED <<route, places, twoVars, optVars, schedVars, genVars,
                   route_responses, recommended, must_visit_places, attempt,
                   gpt_log, itineraries, region, parsed, trip_created,
                   exclude_places>>

\* _generate_with_gpt, lines 333-342: one pass of the loop
ReqCallGpt ==
    /\ pc = "draft"
    /\ attempt < MaxAttempts
    /\ \E resp \in GptResponses :
          LET outcome == OutcomeOf(resp)
          IN  /\ gpt_log' = Append(gpt_log,
                                   [response |-> resp, outcome |-> outcome])
              /\ attempt' = attempt + 1
              /\ IF outcome = "parsed"
                 THEN /\ parsed' = _parse_gpt_response(resp.text)
                      /\ pc' = "build"
                      /\ error' = error
                 ELSE IF Retried(outcome)
                 THEN /\ parsed' = parsed
                      /\ IF attempt + 1 < MaxAttempts
                         THEN pc' = "draft" /\ error' = error
                         ELSE pc' = "failed" /\ error' = "draft_unparseable"
                 ELSE /\ parsed' = parsed
                      /\ pc' = "failed"
                      /\ error' = outcome
    /\ UNCHANGED <<route, places, twoVars, optVars, schedVars, genVars,
                   route_responses, recommended, must_visit_places, candidates,
                   itineraries, region, trip_created, exclude_places>>

\* generate_itinerary, lines 73-79: the draft's days are mapped to places
ReqBuildPlacesByDay ==
    /\ pc = "build"
    /\ IF parsed.json_type # "object"
       THEN /\ error' = "AttributeError" /\ pc' = "failed"
            /\ UNCHANGED <<draft, places_by_day>>
       ELSE IF DraftKeyError(DaysOf(parsed.value))
       THEN /\ error' = "KeyError" /\ pc' = "failed"
            /\ UNCHANGED <<draft, places_by_day>>
       ELSE /\ draft' = DaysOf(parsed.value)
            /\ places_by_day' = _build_places_by_day(DaysOf(parsed.value),
                                                     PlaceDict(candidates))
            /\ error' = error /\ pc' = "optimize"
    /\ UNCHANGED <<route, places, twoVars, optVars, schedVars,
                   optimized_by_day, constrained, gen_warnings,
                   route_responses, recommended, must_visit_places, candidates,
                   attempt, gpt_log, itineraries, region, parsed,
                   trip_created, exclude_places>>

\* how a save ends: the commit of the trip fails, the trip is committed and
\* the commit of its rows fails, or both are committed
SaveOutcomes == {"trip_failed", "rows_failed", "stored"}

\* _save_trip: create_trip adds the trip and commits it (crud.py lines
\* 31-32), bulk_create_itineraries adds the rows and commits them (line 238);
\* an exception from either is logged, the session is rolled back and the
\* exception is raised again (lines 503-506).  The rollback undoes what is
\* not yet committed.
ReqSaveTrip ==
    /\ pc = "save"
    /\ \E outcome \in SaveOutcomes :
          /\ trip_created' = (outcome # "trip_failed")
          /\ itineraries' = IF outcome = "stored"
                            THEN ItineraryRows(constrained, KeyOrder(draft, {}))
                            ELSE <<>>
          /\ error' = IF outcome = "stored" THEN error ELSE "save_failed"
          /\ pc' = IF outcome = "stored" THEN "saved" ELSE "failed"
    /\ UNCHANGED <<route, places, twoVars, optVars, schedVars, genVars,
                   route_responses, recommended, must_visit_places, candidates,
                   attempt, gpt_log, region, parsed, exclude_places>>

NextRequest ==
    \/ ReqGather \/ ReqCallGpt \/ ReqBuildPlacesByDay
    \/ GenOptimize \/ GenApplyConstraints \/ ReqSaveTrip

SpecRequest == InitRequest /\ [][NextRequest]_vars

OutcomesOf(log) == [k \in 1..Len(log) |-> log[k].outcome]

\* C11: the draft generator is called at most 3 times in a request; a call
\* is followed by another only if its response failed to parse; a response
\* that parses ends the loop; three responses that fail to parse end the
\* request with the draft-unparseable error; a transport error ends the
\* request at once with that error.
C11_AtMostThreeCalls ==
    /\ attempt = Len(gpt_log)
    /\ Len(gpt_log) <= 3
    /\ \A k \in 1..(Len(gpt_log) - 1) : gpt_log[k].outcome = "ValueError"
    /\ gpt_log # <<>> =>
           LET last == gpt_log[Len(gpt_log)].outcome
           IN  /\ last = "parsed" => pc # "draft" /\ error # "draft_unparseable"
               /\ last = "transport" => pc = "failed" /\ error = "transport"
               /\ (last = "ValueError" /\ Len(gpt_log) = 3) =>
                      pc = "failed" /\ error = "draft_unparseable"
               /\ (last = "ValueError" /\ Len(gpt_log) < 3) => pc = "draft"

\* a request that ended after two responses that failed to parse and a
\* third call that raised
C11_Witness ==
    /\ OutcomesOf(gpt_log) = <<"ValueError", "ValueError", "transport">>
    /\ pc = "failed"

\* the contract shape: an object with a list of days, each with a
\* day_number and with places that each have a place_id
ContractShape(text) ==
    LET r == _parse_gpt_response(text)
    IN  /\ r.ok
        /\ r.json_type = "object"
        /\ "days" \in DOMAIN r.value
        /\ ~DraftKeyError(r.value.days)

\* C12: a response that is not of the contract shape counts as a failed
\* attempt (it is retried), and a stored trip is built from a response of
\* the contract shape.
C12_MalformedDraftRejected ==
    /\ \A k \in 1..Len(gpt_log) :
           (/\ gpt_log[k].response.kind = "text"
            /\ ~ContractShape(gpt_log[k].response.text))
               => gpt_log[k].outcome = "ValueError"
    /\ trip_created => ContractShape(gpt_log[Len(gpt_log)].response.text)

\* C13: when candidate collection returns no candidates, the request fails
\* with the no-candidates error, the draft generator is not called and no
\* trip is stored.
C13_NoCandidatesFailsEarly ==
    (pc # "gather" /\ candidates = <<>>) =>
        /\ pc = "failed"
        /\ error = "no_candidates"
        /\ attempt = 0
        /\ ~trip_created

\* a request for a region without data and with no must-visit place has
\* failed
C13_Witness ==
    /\ pc = "failed"
    /\ region = "jeju"
    /\ recommended = <<>>
    /\ candidates = <<>>
    /\ error = "no_candidates"

----------------------------------------------------------------------------
(* planner_router.optimize_route on a stored trip *)

\* most itinerary rows of the stored trip
MaxRows == 3

\* an itinerary row joined with its place: each row is of a place of its
\* own, so the row's id stands for the place id too
ItineraryRow(id, day_number, order_index, pt, travel, mode) ==
    [id |-> id, day_number |-> day_number, order_index |-> order_index,
     latitude |-> pt[1], longitude |-> pt[2],
     travel_time_from_prev |-> travel, transport_mode |-> mode]

\* the positions of the rows of a day, in the order the rows are listed
RowsOfDay(rows, day) ==
    LET RECURSIVE Pick(_)
        Pick(k) == IF k > Len(rows) THEN <<>>
                   ELSE IF rows[k].day_number = day THEN <<k>> \o Pick(k + 1)
                   ELSE Pick(k + 1)
    IN  Pick(1)

\* a trip as an earlier run stored it: rows in the order of their ids, each
\* day numbered 1..n in that order and annotated for that order by the
\* fallback of _add_travel_times
StoredTrip(day_of, pts) ==
    LET n == Len(pts)
        bare == [k \in 1..n |->
                    ItineraryRow(k, day_of[k], 0, pts[k], NoInt, None)]
        pos(k) == CHOOSE o \in 1..n : RowsOfDay(bare, day_of[k])[o] = k
        prev(k) == RowsOfDay(bare, day_of[k])[pos(k) - 1]
        hop(k) == TravelOfHop(bare[prev(k)], bare[k],
                              [duration |-> 0, distance |-> 0])
    IN  [k \in 1..n |->
            IF pos(k) = 1
            THEN ItineraryRow(k, day_of[k], 1, pts[k], NoInt, None)
            ELSE ItineraryRow(k, day_of[k], pos(k), pts[k],
                              FloorTravelTime(hop(k).travel_time),
                              hop(k).transport_mode)]

\* lines 484-497: the rows grouped by day, in the order they are loaded
LoadedByDay(rows) ==
    [d \in {rows[k].day_number : k \in 1..Len(rows)} |->
        LET ks == RowsOfDay(rows, d)
        IN  [o \in 1..Len(ks) |->
                [PlainPlace(rows[ks[o]].id,
                            <<rows[ks[o]].latitude, rows[ks[o]].longitude>>)
                    EXCEPT !.order_index = rows[ks[o]].order_index]]]

\* reorder_itineraries, lines 205-210: each item sets day_number and
\* order_index of the row with its id, and nothing else
reorder_itineraries(rows, by_day) ==
    [k \in 1..Len(rows) |->
        LET at == CHOOSE h \in StopsOf(by_day) :
                      by_day[h[1]][h[2]].place_id = rows[k].id
        IN  [rows[k] EXCEPT !.day_number = at[1],
                            !.order_index = by_day[at[1]][at[2]].order_index]]

InitReorder ==
    /\ pc = "request"
    /\ \/ trip_created = FALSE /\ itineraries = <<>>
       \/ /\ trip_created = TRUE
          /\ \E n \in 0..MaxRows :
                \E day_of \in [1..n -> DraftDayNumbers] :
                    \E pts \in [1..n -> GridPoints] :
                        itineraries = StoredTrip(day_of, pts)
    /\ exclude_places = {}
    /\ start_location \in {NoPoint} \cup AnchorPoints
    /\ end_location = NoPoint
    /\ places = <<>> /\ route = <<>> /\ optimized = <<>>
    /\ route_responses = <<>>
    /\ recommended = <<>> /\ must_visit_places = <<>> /\ candidates = <<>>
    /\ attempt = 0 /\ gpt_log = <<>> /\ error = None
    /\ region = None /\ parsed = <<>>
    /\ IdleTwoOpt /\ IdleSched /\ IdleGen

\* optimize_route, lines 469-532
OptimizeOnly ==
    /\ pc = "request"
    /\ IF ~trip_created
       THEN /\ error' = "404" /\ pc' = "failed"
            /\ UNCHANGED <<itineraries, places_by_day, optimized_by_day>>
       ELSE IF itineraries = <<>>
       THEN /\ error' = "400" /\ pc' = "failed"
            /\ UNCHANGED <<itineraries, places_by_day, optimized_by_day>>
       ELSE /\ places_by_day' = LoadedByDay(itineraries)
            /\ \E info \in [HopsOf(LoadedByDay(itineraries)) -> RouteOutcomes] :
                  optimized_by_day' = optimize(LoadedByDay(itineraries),
                                               start_location, end_location,
                                               info)
            /\ itineraries' = reorder_itineraries(itineraries,
                                                  optimized_by_day')
            /\ error' = error /\ pc' = "reordered"
    /\ UNCHANGED <<route, places, twoVars, optVars, schedVars, draft,
                   constrained, gen_warnings, route_responses, recommended,
                   must_visit_places, candidates, attempt, gpt_log, region,
                   parsed, trip_created, exclude_places>>

SpecReorder == InitReorder /\ [][OptimizeOnly]_vars

RowById(rows, id) == rows[CHOOSE k \in 1..Len(rows) : rows[k].id = id]

\* C17: after optimize_route, each stored row carries the travel time and
\* transport mode computed for the new order: None on the first stop of its
\* day, and the travel from its new predecessor otherwise.
C17_StoredTravelRecomputed ==
    pc = "reordered" =>
        \A h \in StopsOf(optimized_by_day) :
            LET stop == optimized_by_day[h[1]][h[2]]
                row == RowById(itineraries, stop.place_id)
            IN  /\ row.order_index = h[2]
                /\ row.travel_time_from_prev = stop.travel_time_from_prev
                /\ row.transport_mode = stop.transport_mode

----------------------------------------------------------------------------
(* The scheduler: meal windows, the end of the day, stay durations, dropped
   stops and closed days *)

InLunchWindow(t) == lunch_start <= t /\ t < lunch_end
InDinnerWindow(t) == t >= dinner_start

RestaurantsKept ==
    {k \in 1..Len(day_itineraries) : IsRestaurant(day_itineraries[k])}

\* C21: every restaurant stop of the scheduler's output has its final
\* arrival time in the lunch window [12:00, 14:00) or at or after 18:30.
C21_RestaurantInMealWindow ==
    \A k \in RestaurantsKept :
        LET t == day_itineraries[k].suggested_arrival_time
        IN  InLunchWindow(t) \/ InDinnerWindow(t)

\* C22: when a day's output holds two restaurants, the first arrives in the
\* lunch window [12:00, 14:00) and the second at or after 18:30.
C22_LunchThenDinner ==
    \A a, b \in RestaurantsKept :
        a < b => /\ InLunchWindow(day_itineraries[a].suggested_arrival_time)
                 /\ InDinnerWindow(day_itineraries[b].suggested_arrival_time)

KeptNow == AtStop /\ last_step' = "kept"

\* the clock-plus-travel arrival of a kept stop after every adjustment, on
\* the scheduler's own time line (minutes since the day's midnight)
FinalArrival(p, cur) ==
    WaitForOpening(_parse_operating_hours(p.operating_hours),
                   ArrivalAtHoursCheck(p, cur))

HasWarning(ws, kind, p) == \E k \in 1..Len(ws) : ws[k] = Warning(kind, p)

\* a stop is dropped whenever its finish time (arrival plus stay) is after
\* the end of the day, unless it is must_visit
C23_FinishAfterEndDropped ==
    [][KeptNow =>
          \/ NextStop.must_visit
          \/ FinalArrival(NextStop, current_time)
                 + LastKept'.suggested_stay_duration <= day_end]_vars

\* C23: a stop that is not must_visit is dropped when its arrival is at or
\* after day_end, so every such stop in the output arrives before day_end;
\* one that arrives before day_end and finishes after it is kept with a
\* Warning; a must_visit stop that arrives at or after day_end is kept with
\* a Warning.
C23_ArrivalAfterEndDropped ==
    [][KeptNow =>
          LET p == NextStop
              arrival == FinalArrival(p, current_time)
              finish == arrival + LastKept'.suggested_stay_duration
              new == SubSeq(warnings', Len(warnings) + 1, Len(warnings'))
          IN  /\ ~p.must_visit =>
                    /\ arrival < day_end
                    /\ LastKept'.suggested_arrival_time < day_end
              /\ (arrival < day_end /\ finish > day_end)
                    => HasWarning(new, "over_end", p)
              /\ (p.must_visit /\ arrival >= day_end)
                    => HasWarning(new, "late", p)]_vars

\* an evening that starts at 20:00: a stop that is not must_visit has
\* arrived before 23:00 and stays until after 23:00, with the warning
C23_Witness ==
    /\ pc = "walk" /\ last_step = "kept"
    /\ ~LastKept.must_visit
    /\ LastKept.suggested_arrival_time + LastKept.suggested_stay_duration
           > day_end
    /\ HasWarning(warnings, "over_end", LastKept)

SuggestionInRange(p) ==
    /\ p.suggested_stay_duration # NoInt
    /\ 15 <= p.suggested_stay_duration /\ p.suggested_stay_duration <= 300

\* stay is the product of the base minutes and the pace multiplier (in
\* tenths), rounded down
IsScaledDown(stay, base, pace_name) ==
    LET tenths == base * PACE_CONFIG(pace_name).stay_multiplier
    IN  10 * stay <= tenths /\ tenths < 10 * (stay + 1)

\* under every pace a kept stop stays for the suggested duration itself
\* when that is within [15, 300], and for the category default times the
\* pace multiplier, rounded down, otherwise
C24_SuggestedStayUnscaled ==
    [][KeptNow =>
          LET p == NextStop
              stay == LastKept'.suggested_stay_duration
          IN  IF SuggestionInRange(p)
              THEN stay = p.suggested_stay_duration
              ELSE IsScaledDown(stay, DEFAULT_STAY_DURATION(p.category),
                                pace)]_vars

\* C24: a kept stop stays for the suggested duration times the pace
\* multiplier, rounded down, when the suggestion is within [15, 300] (the
\* suggestion itself under the moderate pace), and for the category default
\* times the pace multiplier, rounded down, otherwise.
C24_StayScaledByPace ==
    [][KeptNow =>
          LET p == NextStop
              stay == LastKept'.suggested_stay_duration
          IN  IsScaledDown(stay,
                           IF SuggestionInRange(p)
                           THEN p.suggested_stay_duration
                           ELSE DEFAULT_STAY_DURATION(p.category),
                           pace)]_vars

\* the relaxed pace turns the cafe's suggested 45 minutes into 58
C24_Witness ==
    /\ pc = "walk" /\ last_step = "kept"
    /\ pace = "relaxed"
    /\ LastKept.place_id = 9
    /\ SchedCatalog[9].suggested_stay_duration = 45
    /\ LastKept.suggested_stay_duration = 58

DroppedNow ==
    AtStop /\ last_step' \in {"dropped_closed", "dropped_hours", "dropped_late"}

\* C28: when the scheduler drops a stop (closed that day, arrival at or
\* after closing, arrival at or after day_end), current_time is exactly what
\* it was before the stop was considered.
C28_DropLeavesClock ==
    [][DroppedNow => current_time' = current_time]_vars

\* closed_days holds the name of weekday wd as a day name: its syllable
\* where a day name begins (not the "il" that ends "yo il"), or its
\* English name
NamesWeekday(closed_days, wd) ==
    /\ closed_days # NoText
    /\ \/ \E k \in 1..Len(closed_days) :
              /\ closed_days[k] = weekday_names_kr[wd + 1]
              /\ ~(k > 1 /\ closed_days[k - 1] = "yo")
       \/ Contains(weekday_names_en[wd + 1], Lower(closed_days))

TreatedAsClosedNow ==
    /\ AtStop
    /\ \/ last_step' = "dropped_closed"
       \/ HasWarning(SubSeq(warnings', Len(warnings) + 1, Len(warnings')),
                     "closed", NextStop)

\* C30: the scheduler treats a place as closed on the trip day (drops it,
\* or keeps it with the closed-day Warning) only if its closed_days names
\* the weekday of that day.
C30_ClosedOnlyOnNamedWeekday ==
    [][TreatedAsClosedNow => NamesWeekday(NextStop.closed_days, weekday)]_vars

----------------------------------------------------------------------------
(* The optimizer: the end anchor and the order of a day *)

MaxEndStops == 5

\* six places of one town on the 100 m grid, with a start and an end anchor
EndCast ==
    << <<6, 14>>, <<7, 7>>, <<10, 1>>, <<12, 10>>, <<3, 6>>, <<0, 0>> >>
EndCastStart == <<4, 11>>
EndCastEnd == <<6, 3>>

\* the days of n different places of the cast, in every order
EndCastDays(n) ==
    {[k \in 1..n |-> PlainPlace(k, EndCast[pick[k]])] :
        pick \in {f \in [1..n -> 1..Len(EndCast)] :
                     \A a, b \in 1..n : a # b => f[a] # f[b]}}

InitEnd ==
    /\ pc = "optimize"
    /\ IdleReq /\ route_responses = <<>>
    /\ \E n \in 0..MaxEndStops : places \in EndCastDays(n)
    /\ start_location \in {NoPoint, EndCastStart}
    /\ end_location \in {NoPoint, EndCastEnd}
    /\ route = <<>>
    /\ optimized = <<>>
    /\ IdleTwoOpt
    /\ IdleSched
    /\ IdleGen

SpecEnd == InitEnd /\ [][OptimizeOrder]_vars

\* optimize, lines 45-66: the tour after nearest neighbour and 2-opt
TwoOptTour(ps, start) ==
    LET start_pt == IF start # NoPoint THEN start ELSE DefaultStart(ps)
        distance_matrix == _build_distance_matrix(ps)
    IN  _two_opt(_nearest_neighbor(distance_matrix, start_pt, ps),
                 distance_matrix)

\* the tour with position i moved to the final position
MovedToEnd(r, i) ==
    [k \in 1..Len(r) |-> IF k < i THEN r[k]
                         ELSE IF k < Len(r) THEN r[k + 1] ELSE r[i]]

LengthToEnd(r) ==
    _route_distance_with_endpoints(r, places, NoPoint, end_location)

DistToEnd(k) ==
    _haversine(places[k].latitude, places[k].longitude,
               end_location[1], end_location[2])

LastThree(r) == Max(1, Len(r) - 2)..Len(r)

EndAdjusted ==
    /\ pc \in {"travel_times", "optimized"}
    /\ ~SkipsReordering(places)
    /\ end_location # NoPoint

\* with an end anchor: if moving one of the last three tour positions to
\* the final position makes the tour, with the distance to the anchor,
\* strictly shorter, the tour returned is strictly shorter than the 2-opt
\* tour; otherwise it is the 2-opt tour
C25_AnyShorteningMoveTaken ==
    EndAdjusted =>
        LET opt == TwoOptTour(places, start_location)
        IN  IF \E i \in LastThree(opt) :
                   LengthToEnd(MovedToEnd(opt, i)) < LengthToEnd(opt)
            THEN LengthToEnd(route) < LengthToEnd(opt)
            ELSE route = opt

\* C25: with an end anchor, if one of the last three tour positions holds a
\* stop strictly nearer to the anchor than the tour's last stop and moving
\* it to the final position makes the tour, with the distance to the anchor,
\* strictly shorter, the tour returned is strictly shorter than the 2-opt
\* tour; otherwise the 2-opt tour is returned unchanged.
C25_NearerShorteningMoveTaken ==
    EndAdjusted =>
        LET opt == TwoOptTour(places, start_location)
        IN  IF \E i \in LastThree(opt) :
                   /\ DistToEnd(opt[i]) < DistToEnd(opt[Len(opt)])
                   /\ LengthToEnd(MovedToEnd(opt, i)) < LengthToEnd(opt)
            THEN LengthToEnd(route) < LengthToEnd(opt)
            ELSE route = opt

\* a day whose 2-opt tour ends away from the anchor: the tour returned is
\* another one, and shorter than it
C25_Witness ==
    /\ EndAdjusted
    /\ route # TwoOptTour(places, start_location)
    /\ LengthToEnd(route) < LengthToEnd(TwoOptTour(places, start_location))

\* a stop without what the optimizer writes on it
Unannotated(p) ==
    [p EXCEPT !.travel_time_from_prev = NoInt, !.transport_mode = None,
              !.order_index = 0]

\* C27: for every day and every choice of anchors the optimizer's output is
\* a permutation of the day's input stops: the same number of stops, and
\* each input stop in it exactly once, unchanged but for the travel
\* annotation and order_index.
C27_OutputIsPermutation ==
    pc = "optimized" =>
        /\ Len(optimized) = Len(places)
        /\ \A i \in 1..Len(places) :
               Cardinality({k \in 1..Len(optimized) :
                   Unannotated(optimized[k]) = Unannotated(places[i])}) = 1

\* a day of three stops given with both anchors and returned in another
\* order
C27_Witness ==
    /\ pc = "optimized"
    /\ Len(places) = 3
    /\ start_location # NoPoint /\ end_location # NoPoint
    /\ IdsOf(optimized) # IdsOf(places)
    /\ Range(IdsOf(optimized)) = Range(IdsOf(places))

----------------------------------------------------------------------------
(* The candidates of a request: excluded places *)

\* C29: no place id of request.exclude_places is in the candidate list,
\* whichever way it would come in: the scorer, the must-visit insertion or
\* the floor repair.
C29_ExcludedNeverCandidate ==
    pc = "gathered" => CandidateIds(candidates) \cap exclude_places = {}

----------------------------------------------------------------------------
(* Saving the generated trip *)

\* C26: the trip and its stops are saved in one transaction: when the save
\* fails, no trip is left in the store, and a trip in the store has the
\* rows of its itinerary.
C26_SaveAtomic ==
    /\ error = "save_failed" => ~trip_created
    /\ pc = "saved" =>
           /\ trip_created
           /\ itineraries = ItineraryRows(constrained, KeyOrder(draft, {}))

====
